---------------------------- MODULE Spec2Model ----------------------------
(***************************************************************************)
(* Model of the CSV -> MongoDB ingestion (migration/csv_to_mongo.py,       *)
(* migration/sql_to_csv.py, migration_sql_to_nosql.py) and of the eight    *)
(* aggregation reports (queries/run_all_queries.py).                       *)
(*                                                                         *)
(* Numbers are integers.  A mean is kept as the exact fraction sum/count;  *)
(* a value rounded to two decimals is kept as an integer number of         *)
(* hundredths.                                                             *)
(***************************************************************************)
EXTENDS Integers, Sequences, FiniteSets, TLC

VARIABLES
    pg,         \* the tables of the PostgreSQL database
    csv,        \* the files of INPUT_DIR (migration/csv_data)
    paises,     \* the collection db.paises, in insertion order
    usinas,     \* the collection db.usinas, in insertion order
    pc,         \* the step the scripts are at
    results,    \* the local `results` of execute_and_save_queries
    output_dir  \* the names of the files written to queries/query_results

vars == <<pg, csv, paises, usinas, pc, results, output_dir>>

-----------------------------------------------------------------------------
(* Bounds of the model *)

\* rows of one indicator CSV file
MaxRows == 2
MaxRowsQ1 == 4
\* rows of unidades_geradoras.csv
MaxUnidades == 3
\* rows of unidades_geradoras.csv for the incomplete documents
MaxUnidadesMissing == 2
\* rows of paises.csv for report 2
MaxPaisesQ2 == 11

-----------------------------------------------------------------------------
(* Generic helpers *)

Range(s) == {s[i] : i \in 1..Len(s)}

RECURSIVE SumSeq(_)
SumSeq(s) == IF s = <<>> THEN 0 ELSE Head(s) + SumSeq(Tail(s))

\* sequences over S of length at most n
SeqsUpTo(S, n) == UNION {[1..k -> S] : k \in 0..n}

\* sequences over S of length at most n without a repeated element
InjSeqsUpTo(S, n) ==
    {s \in SeqsUpTo(S, n) : \A i, j \in 1..Len(s) : i # j => s[i] # s[j]}

\* the fields of old, with those of new added or replaced
Merge(old, new) ==
    [f \in DOMAIN old \cup DOMAIN new |->
        IF f \in DOMAIN new THEN new[f] ELSE old[f]]

-----------------------------------------------------------------------------
(* The document store *)

\* update_one as an insert that never looks for the key
UpdateOneInsert(coll, keyField, key, doc) ==
    Append(coll, Merge([_id |-> Len(coll) + 1], doc))

\* update_one(filter, {'$set': doc}, upsert=True): the first document whose
\* key field equals the key receives the fields of doc, every other field of
\* it is kept; with no such document one is inserted, with a fresh _id.
\* Documents are never deleted, so Len + 1 is a fresh _id.
UpdateOneSet(coll, keyField, key, doc) ==
    LET hits == {i \in 1..Len(coll) : coll[i][keyField] = key}
    IN IF hits = {}
       THEN Append(coll, Merge([_id |-> Len(coll) + 1], doc))
       ELSE LET i == CHOOSE h \in hits : \A k \in hits : h <= k
            IN [coll EXCEPT ![i] = Merge(coll[i], doc)]

-----------------------------------------------------------------------------
(* import_paises_from_csv *)

\* indicator_files: CSV file key -> MongoDB field
IndicatorFileKeys ==
    {"idh", "acesso_eletricidade", "acesso_energia_renovavel",
     "investimento_energia_limpa", "acesso_combustivel_limpo",
     "energia_renovavel_per_capita"}

indicator_files(k) ==
    IF k = "energia_renovavel_per_capita"
    THEN "geracao_energia_renovavel_per_capita"
    ELSE k

\* key_name_map, applied to one CSV record: {'ano': int, <key>: float}
CsvEntry(mongo_field, r) ==
    CASE mongo_field = "idh" ->
            [ano |-> r.ano, indice |-> r.valor]
      [] mongo_field = "investimento_energia_limpa" ->
            [ano |-> r.ano, valor_dolar |-> r.valor]
      [] mongo_field = "geracao_energia_renovavel_per_capita" ->
            [ano |-> r.ano, geracao_watts |-> r.valor]
      [] OTHER ->
            [ano |-> r.ano, porcentagem |-> r.valor]

\* groupby('id_pais') ... to_dict('records'): the rows of one country, in
\* file order
RECURSIVE RowsOf(_, _)
RowsOf(rows, id) ==
    IF rows = <<>> THEN <<>>
    ELSE IF Head(rows).id_pais = id
         THEN <<Head(rows)>> \o RowsOf(Tail(rows), id)
         ELSE RowsOf(Tail(rows), id)

\* re.sub(r'[^A-Z_]', '', code): a code is a sequence of characters
UpperOrUnderscore ==
    {"A", "B", "C", "D", "E", "F", "G", "H", "I", "J", "K", "L", "M", "N",
     "O", "P", "Q", "R", "S", "T", "U", "V", "W", "X", "Y", "Z", "_"}

CleanCode(code) == SelectSeq(code, LAMBDA c : c \in UpperOrUnderscore)

\* the document built for one row of paises.csv
PaisDoc(files, row) ==
    LET withData == {k \in IndicatorFileKeys :
                        RowsOf(files.indicador[k], row.id_pais) # <<>>}
        series == [f \in {indicator_files(k) : k \in withData} |->
                     LET k == CHOOSE k \in withData : indicator_files(k) = f
                         recs == RowsOf(files.indicador[k], row.id_pais)
                     IN [i \in 1..Len(recs) |-> CsvEntry(f, recs[i])]]
    IN Merge([nome |-> row.nome, cod_pais |-> CleanCode(row.code)], series)

\* the loop over df_paises.iterrows(); a row whose code is empty (read
\* back as NaN) or empty after cleaning is skipped
RECURSIVE ImportPaisesLoop(_, _, _)
ImportPaisesLoop(coll, files, rows) ==
    IF rows = <<>> THEN coll
    ELSE LET row == Head(rows)
         IN IF CleanCode(row.code) = <<>>
            THEN ImportPaisesLoop(coll, files, Tail(rows))
            ELSE ImportPaisesLoop(
                    UpdateOneSet(coll, "cod_pais", CleanCode(row.code),
                                 PaisDoc(files, row)),
                    files, Tail(rows))

-----------------------------------------------------------------------------
(* import_usinas_from_csv *)

\* The attributes no report reads (cod_pais, tipo_usina,
\* modalidade_operacao, subsistema, the unit's codes and dates) are written
\* the same way as nome_usina and are left out.

\* one row of the group of unidades_geradoras.csv; an empty
\* potencia_efetiva cell (NaN) becomes 0.0
UnidadeDoc(u) ==
    [combustivel |-> u.combustivel,
     potencia_efetiva_mw |->
        IF "potencia_efetiva" \in DOMAIN u THEN u.potencia_efetiva ELSE 0]

RECURSIVE UnidadesOf(_, _)
UnidadesOf(rows, id) ==
    IF rows = <<>> THEN <<>>
    ELSE IF Head(rows).id_usina = id
         THEN <<UnidadeDoc(Head(rows))>> \o UnidadesOf(Tail(rows), id)
         ELSE UnidadesOf(Tail(rows), id)

UsinaDoc(files, row) ==
    [nome_usina |-> row.nome_usina,
     ceg |-> row.ceg,
     agente_proprietario |-> row.agente_proprietario,
     estado |-> [nome |-> row.estado_nome],
     unidades_geradoras |-> UnidadesOf(files.unidades_geradoras, row.id_usina)]

\* the loop over df_usinas.iterrows(); a row with an empty ceg cell (NaN)
\* is skipped
RECURSIVE ImportUsinasLoop(_, _, _)
ImportUsinasLoop(coll, files, rows) ==
    IF rows = <<>> THEN coll
    ELSE LET row == Head(rows)
         IN IF row.ceg = ""
            THEN ImportUsinasLoop(coll, files, Tail(rows))
            ELSE ImportUsinasLoop(
                    UpdateOneSet(coll, "ceg", row.ceg, UsinaDoc(files, row)),
                    files, Tail(rows))

-----------------------------------------------------------------------------
(* sql_to_csv.py *)

\* indicator_tables of export_paises_to_csv: table -> value column
ValueColumn(table_name) ==
    CASE table_name = "idh" -> "indice"
      [] table_name = "investimento_energia_limpa" -> "valor_dolar"
      [] table_name = "energia_renovavel_per_capita" -> "geracao_watts"
      [] OTHER -> "porcentagem"

\* SELECT id_pais, ano, <value_column> FROM <table>, the value column
\* renamed to 'valor'
ExportIndicator(db, table_name) ==
    [i \in 1..Len(db.indicador[table_name]) |->
        LET r == db.indicador[table_name][i]
        IN [id_pais |-> r.id_pais, ano |-> r.ano,
            valor |-> r[ValueColumn(table_name)]]]

\* export_paises_to_csv and export_usinas_to_csv: the files written to
\* OUTPUT_DIR.  db.usina holds the rows of the SELECT over Usina and its
\* joined tables, which both paths run.
ExportToCsvFiles(db) ==
    [paises |-> [i \in 1..Len(db.pais) |->
                    [id_pais |-> db.pais[i].id_pais, code |-> db.pais[i].code,
                     nome |-> db.pais[i].nome]],
     indicador |-> [k \in IndicatorFileKeys |-> ExportIndicator(db, k)],
     usinas |-> db.usina,
     unidades_geradoras |-> db.unidade_geradora]

-----------------------------------------------------------------------------
(* migration_sql_to_nosql.py *)

\* indicator_tables of migrate_paises: table -> MongoDB field
MigrateTables ==
    {"idh", "acesso_eletricidade", "investimento_energia_limpa",
     "acesso_combustivel_limpo", "energia_renovavel_per_capita"}

indicator_tables(table_name) ==
    CASE table_name = "acesso_combustivel_limpo" ->
            "acesso_energia_limpa_cozinha"
      [] table_name = "energia_renovavel_per_capita" ->
            "geracao_energia_renovavel_per_capta"
      [] OTHER -> table_name

\* key_name_map.get(mongo_field, 'porcentagem')
MigrateValueKey(mongo_field) ==
    CASE mongo_field = "idh" -> "indice"
      [] mongo_field = "investimento_energia_limpa" -> "valor_dolar"
      [] mongo_field = "geracao_energia_renovavel_per_capta" -> "geracao_watts"
      [] OTHER -> "porcentagem"

\* ORDER BY ano: the row of the least year first, rows of one year in table
\* order
RECURSIVE OrderByAno(_)
OrderByAno(rows) ==
    IF rows = <<>> THEN <<>>
    ELSE LET i == CHOOSE j \in 1..Len(rows) :
                    /\ \A k \in 1..Len(rows) : rows[j].ano <= rows[k].ano
                    /\ \A k \in 1..(j - 1) : rows[k].ano # rows[j].ano
         IN <<rows[i]>> \o
            OrderByAno(SubSeq(rows, 1, i - 1) \o SubSeq(rows, i + 1, Len(rows)))

\* SELECT ano, <value_column> FROM <table> WHERE id_pais = %s ORDER BY ano,
\* as indicator_list
IndicatorList(db, table_name, id) ==
    LET data == OrderByAno(SelectSeq(db.indicador[table_name],
                                     LAMBDA r : r.id_pais = id))
        key == MigrateValueKey(indicator_tables(table_name))
    IN [i \in 1..Len(data) |->
            [f \in {"ano", key} |->
                IF f = "ano" THEN data[i].ano
                ELSE data[i][ValueColumn(table_name)]]]

\* pais_doc of migrate_paises
MigratePaisDoc(db, row) ==
    LET withData == {t \in MigrateTables :
                        IndicatorList(db, t, row.id_pais) # <<>>}
        series == [f \in {indicator_tables(t) : t \in withData} |->
                     LET t == CHOOSE t \in withData : indicator_tables(t) = f
                     IN IndicatorList(db, t, row.id_pais)]
    IN Merge([nome |-> row.nome, cod_pais |-> row.code], series)

\* the loop over the rows of Pais; a NULL or empty code is skipped
RECURSIVE MigratePaisesLoop(_, _, _)
MigratePaisesLoop(coll, db, rows) ==
    IF rows = <<>> THEN coll
    ELSE LET row == Head(rows)
         IN IF row.code = <<>>
            THEN MigratePaisesLoop(coll, db, Tail(rows))
            ELSE MigratePaisesLoop(
                    UpdateOneSet(coll, "cod_pais", row.code,
                                 MigratePaisDoc(db, row)),
                    db, Tail(rows))

\* usina_doc of migrate_usinas, with the units of
\* SELECT * FROM Unidade_Geradora WHERE id_usina = %s; a NULL or zero
\* potencia_efetiva becomes 0.0
MigrateUsinaDoc(db, row) ==
    LET unidades == SelectSeq(db.unidade_geradora,
                              LAMBDA u : u.id_usina = row.id_usina)
    IN [nome_usina |-> row.nome_usina,
        ceg |-> row.ceg,
        agente_proprietario |-> row.agente_proprietario,
        estado |-> [nome |-> row.estado_nome],
        unidades_geradoras |->
            [i \in 1..Len(unidades) |->
                [combustivel |-> unidades[i].combustivel,
                 potencia_efetiva_mw |->
                    IF "potencia_efetiva" \in DOMAIN unidades[i]
                    THEN unidades[i].potencia_efetiva ELSE 0]]]

\* the loop over the rows of the SELECT; a NULL or empty ceg is skipped
RECURSIVE MigrateUsinasLoop(_, _, _)
MigrateUsinasLoop(coll, db, rows) ==
    IF rows = <<>> THEN coll
    ELSE LET row == Head(rows)
         IN IF row.ceg = ""
            THEN MigrateUsinasLoop(coll, db, Tail(rows))
            ELSE MigrateUsinasLoop(
                    UpdateOneSet(coll, "ceg", row.ceg,
                                 MigrateUsinaDoc(db, row)),
                    db, Tail(rows))

-----------------------------------------------------------------------------
(* Aggregation stages *)

\* $unwind: one document per element of the array field f, the element in
\* the place of the array; a document without the field, or with an empty
\* array, yields none
RECURSIVE Unwind(_, _)
Unwind(docs, f) ==
    IF docs = <<>> THEN <<>>
    ELSE LET d == Head(docs)
             one == IF f \in DOMAIN d
                    THEN [i \in 1..Len(d[f]) |->
                            [g \in DOMAIN d |->
                                IF g = f THEN d[f][i] ELSE d[g]]]
                    ELSE <<>>
         IN one \o Unwind(Tail(docs), f)

\* $round to 2 decimals of num/den (den > 0, num >= 0), in hundredths;
\* a tie goes to the even hundredth
Round2(num, den) ==
    LET q == (num * 100) \div den
        r == (num * 100) % den
    IN IF 2 * r < den THEN q
       ELSE IF 2 * r > den THEN q + 1
       ELSE IF q % 2 = 0 THEN q ELSE q + 1

\* The orders $sort may return for the rows s[i], i \in idx, with sort keys
\* k[i], descending: any arrangement in which the key never increases.
\* Rows with equal keys may come in any order ($sort is not stable, and
\* $group emits its groups in no defined order).
RECURSIVE SortOrders(_, _, _)
SortOrders(s, k, idx) ==
    IF idx = {} THEN {<<>>}
    ELSE LET top == {i \in idx : \A j \in idx : k[i] >= k[j]}
         IN UNION {{<<s[i]>> \o t : t \in SortOrders(s, k, idx \ {i})} :
                      i \in top}

\* $limit
Limit(s, n) == IF Len(s) <= n THEN s ELSE SubSeq(s, 1, n)

\* the groups of $group, as a sequence in some order
RECURSIVE SetToSeq(_)
SetToSeq(S) ==
    IF S = {} THEN <<>>
    ELSE LET x == CHOOSE y \in S : TRUE
         IN <<x>> \o SetToSeq(S \ {x})

-----------------------------------------------------------------------------
(* Query 1: electricity access, Brazil against the global mean *)

\* Q1Row with a country that has no entry for the year counted as 0
Q1RowMissingAsZero(u, a) ==
    LET g == SelectSeq(u, LAMBDA d : d.acesso_eletricidade.ano = a)
        vals == [i \in 1..Len(g) |-> g[i].acesso_eletricidade.porcentagem]
        dados_brasil == SelectSeq(g, LAMBDA d : d.nome = "Brazil")
        row == [ano |-> a,
                media_global |->
                    Round2(SumSeq(vals),
                           Cardinality({u[i]._id : i \in 1..Len(u)}))]
    IN IF dados_brasil = <<>>
       THEN row
       ELSE Merge(row, [acesso_brasil |->
                          dados_brasil[1].acesso_eletricidade.porcentagem])

Q1Row(u, a) ==
    LET g == SelectSeq(u, LAMBDA d : d.acesso_eletricidade.ano = a)
        vals == [i \in 1..Len(g) |-> g[i].acesso_eletricidade.porcentagem]
        dados_brasil == SelectSeq(g, LAMBDA d : d.nome = "Brazil")
        row == [ano |-> a, media_global |-> Round2(SumSeq(vals), Len(g))]
    IN IF dados_brasil = <<>>
       THEN row
       ELSE Merge(row, [acesso_brasil |->
                          dados_brasil[1].acesso_eletricidade.porcentagem])

q1_pipeline(coll) ==
    LET u == Unwind(coll, "acesso_eletricidade")
        anos == {u[i].acesso_eletricidade.ano : i \in 1..Len(u)}
        rows == SetToSeq({Q1Row(u, a) : a \in anos})
    IN SortOrders(rows, [i \in 1..Len(rows) |-> 0 - rows[i].ano],
                  1..Len(rows))

-----------------------------------------------------------------------------
(* Query 2: top 10 countries by renewable-energy access in 2020 *)

AnoTop10 == 2020
Top10 == 10

q2_pipeline(coll) ==
    LET m == SelectSeq(coll, LAMBDA d :
                /\ "acesso_energia_renovavel" \in DOMAIN d
                /\ d.acesso_energia_renovavel # <<>>)
        u == SelectSeq(Unwind(m, "acesso_energia_renovavel"),
                LAMBDA d : d.acesso_energia_renovavel.ano = AnoTop10)
        sorted == SortOrders(u,
                    [i \in 1..Len(u) |->
                        u[i].acesso_energia_renovavel.porcentagem],
                    1..Len(u))
        project(d) == [pais |-> d.nome,
                       ano |-> d.acesso_energia_renovavel.ano,
                       pct_renovavel |->
                            d.acesso_energia_renovavel.porcentagem]
    IN {[i \in 1..Len(Limit(s, Top10)) |-> project(s[i])] : s \in sorted}

-----------------------------------------------------------------------------
(* Query 3: correlation of HDI and renewable generation per capita *)

Abs(x) == IF x < 0 THEN 0 - x ELSE x

Sign(x) == IF x < 0 THEN 0 - 1 ELSE IF x > 0 THEN 1 ELSE 0

RECURSIVE GCD(_, _)
GCD(a, b) == IF b = 0 THEN a ELSE GCD(b, a % b)

\* the fraction num/den (den > 0, num >= 0) in lowest terms
Frac(num, den) ==
    LET g == GCD(num, den) IN [num |-> num \div g, den |-> den \div g]

\* A correlation c is kept exactly, as its sign and its square:
\* c = sinal * sqrt(quadrado).
CorrZero == [sinal |-> 0, quadrado |-> Frac(0, 1)]

\* The $addFields and the last $project of one year's group.  With n the
\* count, mean = sum / n, so x - mean = (n*x - sum) / n: the sums below are
\* the code's covariance and sums of squared deviations times n*n, and
\* stdDev = sqrt(ssd) / n is 0 exactly when ssd is 0.  $divide raises on a
\* zero divisor.  The values of the CSV families below are whole numbers, on
\* which these sums are exact in the store's doubles as well.

\* Q3Stats with each standard deviation normalised by the count (sqrt of
\* ssd / n) and the covariance left as the code has it
Q3StatsStdDevByN(idh_valores, geracao_valores) ==
    LET n == Len(idh_valores)
        sum_idh == SumSeq(idh_valores)
        sum_geracao == SumSeq(geracao_valores)
        devIdh == [i \in 1..n |-> n * idh_valores[i] - sum_idh]
        devGer == [i \in 1..n |-> n * geracao_valores[i] - sum_geracao]
    IN [covariance |-> n * SumSeq([i \in 1..n |-> devIdh[i] * devGer[i]]),
        ssdIdh |-> SumSeq([i \in 1..n |-> devIdh[i] * devIdh[i]]),
        ssdGeracao |-> SumSeq([i \in 1..n |-> devGer[i] * devGer[i]])]

Q3Stats(idh_valores, geracao_valores) ==
    LET n == Len(idh_valores)
        sum_idh == SumSeq(idh_valores)
        sum_geracao == SumSeq(geracao_valores)
        devIdh == [i \in 1..n |-> n * idh_valores[i] - sum_idh]
        devGer == [i \in 1..n |-> n * geracao_valores[i] - sum_geracao]
    IN [covariance |-> SumSeq([i \in 1..n |-> devIdh[i] * devGer[i]]),
        ssdIdh |-> SumSeq([i \in 1..n |-> devIdh[i] * devIdh[i]]),
        ssdGeracao |-> SumSeq([i \in 1..n |-> devGer[i] * devGer[i]])]

\* Q3Correlacao guarding only the case of both deviations being 0
Q3CorrelacaoGuardBoth(st) ==
    IF st.ssdIdh = 0 /\ st.ssdGeracao = 0
    THEN [correlacao_idh_geracao |-> CorrZero]
    ELSE IF st.ssdIdh * st.ssdGeracao = 0
         THEN [erro |-> "can't $divide by zero"]
         ELSE [correlacao_idh_geracao |->
                 [sinal |-> Sign(st.covariance),
                  quadrado |-> Frac(st.covariance * st.covariance,
                                    st.ssdIdh * st.ssdGeracao)]]

Q3Correlacao(st) ==
    IF st.ssdIdh = 0 \/ st.ssdGeracao = 0
    THEN [correlacao_idh_geracao |-> CorrZero]
    ELSE IF st.ssdIdh * st.ssdGeracao = 0
         THEN [erro |-> "can't $divide by zero"]
         ELSE [correlacao_idh_geracao |->
                 [sinal |-> Sign(st.covariance),
                  quadrado |-> Frac(st.covariance * st.covariance,
                                    st.ssdIdh * st.ssdGeracao)]]

\* the two $unwind, the $match and the $redact: the pairs of an idh entry
\* and a generation entry of one country that carry the same year
Q3Pairs(coll) ==
    SelectSeq(Unwind(Unwind(coll, "idh"),
                     "geracao_energia_renovavel_per_capita"),
              LAMBDA d : /\ "ano" \in DOMAIN d.idh
                         /\ "ano" \in DOMAIN
                                d.geracao_energia_renovavel_per_capita
                         /\ d.idh.ano =
                                d.geracao_energia_renovavel_per_capita.ano)

Q3Row(pairs, a) ==
    LET g == SelectSeq(pairs, LAMBDA d : d.idh.ano = a)
        idh_valores == [i \in 1..Len(g) |-> g[i].idh.indice]
        geracao_valores ==
            [i \in 1..Len(g) |->
                g[i].geracao_energia_renovavel_per_capita.geracao_watts]
    IN Merge([ano |-> a],
             Q3Correlacao(Q3Stats(idh_valores, geracao_valores)))

q3_pipeline(coll) ==
    LET pairs == Q3Pairs(coll)
        anos == {pairs[i].idh.ano : i \in 1..Len(pairs)}
        rows == SetToSeq({Q3Row(pairs, a) : a \in anos})
    IN SortOrders(rows, [i \in 1..Len(rows) |-> 0 - rows[i].ano],
                  1..Len(rows))

-----------------------------------------------------------------------------
(* Queries 4 to 8: the plants *)

\* 'HIDRICA' and 'EOLICA' stand for the accented literals of the source
Renovaveis == {"HIDRICA", "EOLICA", "SOLAR", "BIOMASSA"}

\* TemRenovavel as "no unit of the plant burns another fuel"
TemRenovavelNin(d) ==
    \A i \in 1..Len(d.unidades_geradoras) :
        d.unidades_geradoras[i].combustivel \in Renovaveis

\* {"unidades_geradoras.combustivel": {"$in": [...]}}: some unit of the
\* plant burns a renewable fuel
TemRenovavel(d) ==
    \E i \in 1..Len(d.unidades_geradoras) :
        d.unidades_geradoras[i].combustivel \in Renovaveis

\* $divide of num by den times 100, rounded; $divide raises on a zero
\* divisor
Percentual(field, num, den) ==
    IF den = 0
    THEN [erro |-> "can't $divide by zero"]
    ELSE (field :> Round2(num * 100, den))

q4_pipeline(coll) ==
    LET agentes == {coll[i].agente_proprietario : i \in 1..Len(coll)}
        total(a) == Cardinality({i \in 1..Len(coll) :
                                    coll[i].agente_proprietario = a})
        rows == SetToSeq({[agente |-> a, total_usinas |-> total(a)] :
                            a \in {x \in agentes : total(x) > 1}})
    IN SortOrders(rows, [i \in 1..Len(rows) |-> rows[i].total_usinas],
                  1..Len(rows))

\* q5_pipeline counting the units of a fuel ($sum: 1) instead of the
\* distinct plants
q5_pipelineCountUnits(coll) ==
    LET u == Unwind(coll, "unidades_geradoras")
        fuels == {u[i].unidades_geradoras.combustivel : i \in 1..Len(u)}
        rows == SetToSeq({[combustivel |-> f,
                           qtd_usinas |->
                              Cardinality({j \in 1..Len(u) :
                                u[j].unidades_geradoras.combustivel = f})] :
                            f \in fuels})
    IN SortOrders(rows, [i \in 1..Len(rows) |-> rows[i].qtd_usinas],
                  1..Len(rows))

q5_pipeline(coll) ==
    LET u == Unwind(coll, "unidades_geradoras")
        fuels == {u[i].unidades_geradoras.combustivel : i \in 1..Len(u)}
        usinas_distintas(f) ==
            {u[i]._id : i \in {j \in 1..Len(u) :
                                 u[j].unidades_geradoras.combustivel = f}}
        rows == SetToSeq({[combustivel |-> f,
                           qtd_usinas |-> Cardinality(usinas_distintas(f))] :
                            f \in fuels})
    IN SortOrders(rows, [i \in 1..Len(rows) |-> rows[i].qtd_usinas],
                  1..Len(rows))

q6_pipeline(coll) ==
    LET u == Unwind(coll, "unidades_geradoras")
        estados == {u[i].estado.nome : i \in 1..Len(u)}
        cap(e) == SumSeq([i \in 1..Len(u) |->
                    IF u[i].estado.nome = e
                    THEN u[i].unidades_geradoras.potencia_efetiva_mw
                    ELSE 0])
        rows == SetToSeq({[estado |-> e,
                           capacidade_total_mw |-> Round2(cap(e), 1)] :
                            e \in estados})
    IN SortOrders(rows,
                  [i \in 1..Len(rows) |-> rows[i].capacidade_total_mw],
                  1..Len(rows))

\* the field f of a document of $facet's arrays, 0 when it has none ($sum
\* skips a missing field)
FieldOr0(d, f) == IF f \in DOMAIN d THEN d[f] ELSE 0

\* Q7Row with the operands of $divide exchanged
Q7RowSwapped(all_data, e) ==
    LET total == SumSeq([i \in 1..Len(all_data) |->
                    IF all_data[i]._id = e
                    THEN FieldOr0(all_data[i], "total") ELSE 0])
        renovaveis == SumSeq([i \in 1..Len(all_data) |->
                    IF all_data[i]._id = e
                    THEN FieldOr0(all_data[i], "renovaveis") ELSE 0])
    IN Merge([estado |-> e, total_usinas |-> total,
              usinas_renovaveis |-> renovaveis],
             IF total = 0
             THEN [perc_renovaveis |-> 0]
             ELSE Percentual("perc_renovaveis", total, renovaveis))

Q7Row(all_data, e) ==
    LET total == SumSeq([i \in 1..Len(all_data) |->
                    IF all_data[i]._id = e
                    THEN FieldOr0(all_data[i], "total") ELSE 0])
        renovaveis == SumSeq([i \in 1..Len(all_data) |->
                    IF all_data[i]._id = e
                    THEN FieldOr0(all_data[i], "renovaveis") ELSE 0])
    IN Merge([estado |-> e, total_usinas |-> total,
              usinas_renovaveis |-> renovaveis],
             IF total = 0
             THEN [perc_renovaveis |-> 0]
             ELSE Percentual("perc_renovaveis", renovaveis, total))

q7_pipeline(coll) ==
    LET ren == SelectSeq(coll, TemRenovavel)
        total_por_estado ==
            SetToSeq({[_id |-> e,
                       total |-> Cardinality({i \in 1..Len(coll) :
                                                coll[i].estado.nome = e})] :
                        e \in {coll[i].estado.nome : i \in 1..Len(coll)}})
        renovaveis_por_estado ==
            SetToSeq({[_id |-> e,
                       renovaveis |-> Cardinality({i \in 1..Len(ren) :
                                                ren[i].estado.nome = e})] :
                        e \in {ren[i].estado.nome : i \in 1..Len(ren)}})
        all_data == total_por_estado \o renovaveis_por_estado
        rows == SetToSeq({Q7Row(all_data, e) :
                            e \in {all_data[i]._id : i \in 1..Len(all_data)}})
    IN SortOrders(rows,
                  [i \in 1..Len(rows) |->
                        FieldOr0(rows[i], "perc_renovaveis")],
                  1..Len(rows))

\* the renewable units of the plants that have one: $match, $unwind,
\* $match
\* Q8Unidades without the $match after the $unwind
Q8UnidadesNoRefilter(coll) ==
    Unwind(SelectSeq(coll, TemRenovavel), "unidades_geradoras")

Q8Unidades(coll) ==
    SelectSeq(Unwind(SelectSeq(coll, TemRenovavel), "unidades_geradoras"),
              LAMBDA d : d.unidades_geradoras.combustivel \in Renovaveis)

\* {"$sum": "$dados_brasil.investimento_energia_limpa.valor_dolar"}; a
\* document without the series sums to 0
\* Q8Investimento summing the first year of the series only
Q8InvestimentoFirst(brasil) ==
    IF "investimento_energia_limpa" \in DOMAIN brasil
    THEN brasil.investimento_energia_limpa[1].valor_dolar
    ELSE 0

Q8Investimento(brasil) ==
    IF "investimento_energia_limpa" \in DOMAIN brasil
    THEN SumSeq([i \in 1..Len(brasil.investimento_energia_limpa) |->
                    brasil.investimento_energia_limpa[i].valor_dolar])
    ELSE 0

Q8Row(cap, total_mw, brasil) ==
    Merge([estado |-> cap._id,
           capacidade_renovavel_mw |-> Round2(cap.capacidade_renovavel_mw, 1),
           investimento_nacional_total_usd |-> Q8Investimento(brasil)],
          IF total_mw = 0
          THEN [percentual_do_total_nacional |-> 0]
          ELSE Percentual("percentual_do_total_nacional",
                          cap.capacidade_renovavel_mw, total_mw))

q8_pipeline(coll, from_paises) ==
    LET u == Q8Unidades(coll)
        mw(d) == d.unidades_geradoras.potencia_efetiva_mw
        capacidade_por_estado ==
            {[_id |-> e,
              capacidade_renovavel_mw |->
                 SumSeq([i \in 1..Len(u) |->
                            IF u[i].estado.nome = e THEN mw(u[i]) ELSE 0])] :
                e \in {u[i].estado.nome : i \in 1..Len(u)}}
        \* $group with _id None emits no document for an empty input
        total_nacional ==
            IF u = <<>> THEN {}
            ELSE {SumSeq([i \in 1..Len(u) |-> mw(u[i])])}
        dados_brasil == SelectSeq(from_paises, LAMBDA d : d.nome = "Brazil")
        \* the three $unwind: one row per total, state and Brazil document
        rows == SetToSeq({<<Q8Row(c, t, dados_brasil[b]), b>> :
                    c \in capacidade_por_estado, t \in total_nacional,
                    b \in 1..Len(dados_brasil)})
    IN {[i \in 1..Len(s) |-> s[i][1]] :
          s \in SortOrders(rows,
                    [i \in 1..Len(rows) |->
                        rows[i][1].capacidade_renovavel_mw],
                    1..Len(rows))}

-----------------------------------------------------------------------------
(* The scripts *)

\* queries_to_run, in order: the steps of the loop, and the file names
QueryNames == <<"q1", "q2", "q3", "q4", "q5", "q6", "q7", "q8">>

Filenames ==
    <<"1_comparacao_acesso_eletricidade", "2_top10_paises_energia_renovavel",
      "3_correlacao_idh_geracao_renovavel", "4_agentes_com_multiplas_usinas",
      "5_usinas_por_combustivel", "6_capacidade_por_estado",
      "7_percentual_usinas_renovaveis_estado",
      "8_analise_capacidade_vs_investimento">>

\* the step main ends at when query i raised
ErroNames == <<"erro_q1", "erro_q2", "erro_q3", "erro_q4", "erro_q5",
               "erro_q6", "erro_q7", "erro_q8">>

\* the step after query i of the loop
After(i) == IF i = Len(QueryNames) THEN "fim" ELSE QueryNames[i + 1]

\* collection.aggregate(pipeline): the row sequences the store may return
Aggregate(i) ==
    CASE i = 1 -> q1_pipeline(paises)
      [] i = 2 -> q2_pipeline(paises)
      [] i = 3 -> q3_pipeline(paises)
      [] i = 4 -> q4_pipeline(usinas)
      [] i = 5 -> q5_pipeline(usinas)
      [] i = 6 -> q6_pipeline(usinas)
      [] i = 7 -> q7_pipeline(usinas)
      [] i = 8 -> q8_pipeline(usinas, paises)

\* an expression of some row raised: the aggregate command fails
Raised(rows) == \E i \in 1..Len(rows) : "erro" \in DOMAIN rows[i]

\* csv_to_mongo.py runs import_paises_from_csv, then
\* import_usinas_from_csv; run_all_queries.py runs afterwards.
ImportPaisesFromCsv ==
    /\ pc = "import_paises"
    /\ paises' = ImportPaisesLoop(paises, csv, csv.paises)
    /\ pc' = "import_usinas"
    /\ UNCHANGED <<pg, csv, usinas, results, output_dir>>

ImportUsinasFromCsv ==
    /\ pc = "import_usinas"
    /\ usinas' = ImportUsinasLoop(usinas, csv, csv.usinas)
    /\ pc' = "q1"
    /\ UNCHANGED <<pg, csv, paises, results, output_dir>>

\* SaveResults without the test `if results:`
SaveResultsAlways(dir, i, rows) == dir \cup {Filenames[i]}

\* `if results:` ... df.to_csv(output_path): the file of query i is written
\* when the query returned a row; the directory is kept as the names of the
\* files in it, a file's content being the results of its step
SaveResults(dir, i, rows) ==
    IF rows # <<>> THEN dir \cup {Filenames[i]} ELSE dir

\* ExecuteQuery with a pipeline that ends in {"$out": "usinas"}
ExecuteQueryOut ==
    \E i \in 1..Len(QueryNames) :
        /\ pc = QueryNames[i]
        /\ \E rows \in Aggregate(i) :
              /\ pc' = After(i)
              /\ results' = rows
              /\ usinas' = rows
              /\ output_dir' = SaveResults(output_dir, i, rows)
        /\ UNCHANGED <<pg, csv, paises>>

\* one iteration of the loop of execute_and_save_queries; an exception
\* leaves the loop and is caught by main
ExecuteQuery ==
    \E i \in 1..Len(QueryNames) :
        /\ pc = QueryNames[i]
        /\ \E rows \in Aggregate(i) :
              IF Raised(rows)
              THEN pc' = ErroNames[i] /\ UNCHANGED <<results, output_dir>>
              ELSE /\ pc' = After(i)
                   /\ results' = rows
                   /\ output_dir' = SaveResults(output_dir, i, rows)
        /\ UNCHANGED <<pg, csv, paises, usinas>>

Next == ImportPaisesFromCsv \/ ImportUsinasFromCsv \/ ExecuteQuery

\* results holds the rows of query i
Ran(i) == pc = After(i)

\* query i raised
Failed(i) == pc = ErroNames[i]

-----------------------------------------------------------------------------
(* The CSV files the runs start from *)

Anos == {2019, 2020}
Valores == {1, 2}

PaisBrazil == [id_pais |-> 1, code |-> <<"B", "R", "A">>, nome |-> "Brazil"]
PaisArgentina ==
    [id_pais |-> 2, code |-> <<"A", "R", "G">>, nome |-> "Argentina"]
PaisRows == {PaisBrazil, PaisArgentina}

IndicadorRows == [id_pais : {1, 2}, ano : Anos, valor : Valores]

NoIndicador == [k \in IndicatorFileKeys |-> <<>>]

CsvFiles(p, ind, us, un) ==
    [paises |-> p, indicador |-> ind, usinas |-> us,
     unidades_geradoras |-> un]

\* a database with no rows
NoTables ==
    [pais |-> <<>>, indicador |-> [k \in IndicatorFileKeys |-> <<>>],
     usina |-> <<>>, unidade_geradora |-> <<>>]

InitFrom(files) ==
    /\ pg = NoTables
    /\ csv \in files
    /\ paises = <<>>
    /\ usinas = <<>>
    /\ pc = "import_paises"
    /\ results = <<>>
    /\ output_dir = {}

\* paises.csv and indicador_acesso_eletricidade.csv
CsvQ1 ==
    {CsvFiles(p, [NoIndicador EXCEPT !["acesso_eletricidade"] = r],
              <<>>, <<>>) :
        p \in InjSeqsUpTo(PaisRows, 2),
        r \in SeqsUpTo(IndicadorRows, MaxRowsQ1)}

SpecQ1 == InitFrom(CsvQ1) /\ [][Next]_vars

\* paises.csv, indicador_idh.csv and indicador_energia_renovavel_per_capita.csv
CsvQ3 ==
    {CsvFiles(<<PaisBrazil, PaisArgentina>>,
              [NoIndicador EXCEPT !["idh"] = h,
                                  !["energia_renovavel_per_capita"] = g],
              <<>>, <<>>) :
        h \in SeqsUpTo(IndicadorRows, MaxRows),
        g \in SeqsUpTo(IndicadorRows, MaxRows)}

SpecQ3 == InitFrom(CsvQ3) /\ [][Next]_vars

\* paises.csv and indicador_acesso_energia_renovavel.csv for report 2: the
\* first n countries, country i with one entry of i or i + 1 percent, so
\* that neighbours may tie; the first country's entry is of either year, the
\* others' of 2020
Letras == <<"A", "B", "C", "D", "E", "F", "G", "H", "I", "J", "K", "L", "M">>
Nomes == <<"Pais A", "Pais B", "Pais C", "Pais D", "Pais E", "Pais F",
           "Pais G", "Pais H", "Pais I", "Pais J", "Pais K", "Pais L",
           "Pais M">>

PaisQ2(i) == [id_pais |-> i, code |-> <<"P", Letras[i]>>, nome |-> Nomes[i]]

RECURSIVE RowsQ2(_)
RowsQ2(n) ==
    IF n = 0 THEN {<<>>}
    ELSE {Append(r, [id_pais |-> n, ano |-> a, valor |-> v]) :
            r \in RowsQ2(n - 1),
            a \in IF n > 1 THEN {AnoTop10} ELSE Anos,
            v \in {n, n + 1}}

CsvQ2 ==
    UNION {{CsvFiles([i \in 1..n |-> PaisQ2(i)],
                     [NoIndicador EXCEPT !["acesso_energia_renovavel"] = r],
                     <<>>, <<>>) : r \in RowsQ2(n)} :
            n \in 0..MaxPaisesQ2}

SpecQ2 == InitFrom(CsvQ2) /\ [][Next]_vars

\* usinas.csv: plant 1 and plant 2, each in one of the states
Estados == {"SP", "RJ"}

UsinaRows ==
    {[id_usina |-> i, ceg |-> <<"CEG1", "CEG2">>[i],
      nome_usina |-> <<"Usina 1", "Usina 2">>[i],
      agente_proprietario |-> "Agente", estado_nome |-> e] :
        i \in {1, 2}, e \in Estados}

UsinasCsvs ==
    {s \in SeqsUpTo(UsinaRows, 2) :
        \A i, j \in 1..Len(s) : i # j => s[i].id_usina # s[j].id_usina}

\* unidades_geradoras.csv: a unit of plant 1 or 2, renewable or not, of
\* 1 MW or with an empty potencia_efetiva cell
UnidadeRows ==
    [id_usina : {1, 2}, combustivel : {"SOLAR", "GAS"}, potencia_efetiva : {1}]
    \cup [id_usina : {1, 2}, combustivel : {"SOLAR", "GAS"}]

CsvUsinas ==
    {CsvFiles(<<>>, NoIndicador, us, un) :
        us \in UsinasCsvs, un \in SeqsUpTo(UnidadeRows, MaxUnidades)}

SpecUsinas == InitFrom(CsvUsinas) /\ [][Next]_vars

\* paises.csv and indicador_investimento_energia_limpa.csv for report 8:
\* no country named Brazil; Brazil without the series; Brazil with a series
\* of two years; two countries named Brazil
PaisBrazilOutro ==
    [id_pais |-> 3, code |-> <<"B", "R", "Z">>, nome |-> "Brazil"]

InvestRow(id, a, v) == [id_pais |-> id, ano |-> a, valor |-> v]

PaisesQ8 ==
    {<< <<PaisArgentina>>, <<InvestRow(2, 2020, 2)>> >>,
     << <<PaisBrazil>>, <<>> >>,
     << <<PaisArgentina, PaisBrazil>>,
        <<InvestRow(1, 2019, 1), InvestRow(2, 2020, 2),
          InvestRow(1, 2020, 2)>> >>,
     << <<PaisBrazil, PaisBrazilOutro>>,
        <<InvestRow(1, 2020, 1), InvestRow(3, 2020, 2)>> >>}

CsvQ8 ==
    {CsvFiles(p[1],
              [NoIndicador EXCEPT !["investimento_energia_limpa"] = p[2]],
              us, un) :
        p \in PaisesQ8,
        us \in {s \in UsinasCsvs : Len(s) = 2 /\ s[1].id_usina = 1},
        un \in SeqsUpTo(UnidadeRows, MaxUnidades)}

SpecQ8 == InitFrom(CsvQ8) /\ [][Next]_vars

\* the CSV directories of repeated ingestion runs: Brazil and Argentina,
\* with or without an idh entry; plant 1 in either state, with or without a
\* generating unit
CsvIngest ==
    {CsvFiles(p, [NoIndicador EXCEPT !["idh"] = h], us, un) :
        p \in InjSeqsUpTo(PaisRows, 2),
        h \in SeqsUpTo([id_pais : {1, 2}, ano : {2020}, valor : {1}], 1),
        us \in {s \in UsinasCsvs : \A i \in 1..Len(s) : s[i].id_usina = 1},
        un \in {<<>>, <<[id_usina |-> 1, combustivel |-> "SOLAR",
                         potencia_efetiva |-> 1]>>}}

\* csv_to_mongo.py is run again, on the CSV directory as the latest export
\* left it; the collections keep what the earlier runs wrote
CsvToMongoAgain ==
    /\ pc = "q1"
    /\ csv' \in CsvIngest
    /\ pc' = "import_paises"
    /\ UNCHANGED <<pg, paises, usinas, results, output_dir>>

NextIngest == ImportPaisesFromCsv \/ ImportUsinasFromCsv \/ CsvToMongoAgain

SpecIngest == InitFrom(CsvIngest) /\ [][NextIngest]_vars

\* the relational data of the two ingestion paths: Brazil, alone or
\* followed by a second row with its code, with or without
\* rows in the tables idh (two years, the later first in the table),
\* acesso_energia_renovavel and energia_renovavel_per_capita; no plant, or
\* one plant with one unit
PgIdh ==
    {<<>>, <<[id_pais |-> 1, ano |-> 2020, indice |-> 2],
             [id_pais |-> 1, ano |-> 2019, indice |-> 1]>>}

PgAcesso == {<<>>, <<[id_pais |-> 1, ano |-> 2020, porcentagem |-> 1]>>}

PgGeracao == {<<>>, <<[id_pais |-> 1, ano |-> 2020, geracao_watts |-> 1]>>}

PgUsinas ==
    {<< <<>>, <<>> >>,
     << <<[id_usina |-> 1, ceg |-> "CEG1", nome_usina |-> "Usina 1",
           agente_proprietario |-> "Agente", estado_nome |-> "SP"]>>,
        <<[id_usina |-> 1, combustivel |-> "SOLAR",
           potencia_efetiva |-> 1]>> >>}

\* a second row of Pais with Brazil's code
PaisBrasil == [id_pais |-> 3, code |-> <<"B", "R", "A">>, nome |-> "Brasil"]

PgDbs ==
    {[pais |-> p,
      indicador |-> [NoTables.indicador EXCEPT
                        !["idh"] = h,
                        !["acesso_energia_renovavel"] = a,
                        !["energia_renovavel_per_capita"] = g],
      usina |-> u[1], unidade_geradora |-> u[2]] :
        p \in {<<PaisBrazil>>, <<PaisBrazil, PaisBrasil>>},
        h \in PgIdh, a \in PgAcesso, g \in PgGeracao, u \in PgUsinas}

\* sql_to_csv.py
ExportToCsv ==
    /\ pc = "export"
    /\ csv' = ExportToCsvFiles(pg)
    /\ pc' = "import_paises"
    /\ UNCHANGED <<pg, paises, usinas, results, output_dir>>

\* migration_sql_to_nosql.py runs migrate_paises, then migrate_usinas
MigratePaises ==
    /\ pc = "migrate_paises"
    /\ paises' = MigratePaisesLoop(paises, pg, pg.pais)
    /\ pc' = "migrate_usinas"
    /\ UNCHANGED <<pg, csv, usinas, results, output_dir>>

MigrateUsinas ==
    /\ pc = "migrate_usinas"
    /\ usinas' = MigrateUsinasLoop(usinas, pg, pg.usina)
    /\ pc' = "migrado"
    /\ UNCHANGED <<pg, csv, paises, results, output_dir>>

\* the ingestion is run again, by either path, on the relational data as
\* they are by then
RunAgain ==
    /\ pc \in {"q1", "migrado"}
    /\ pg' \in PgDbs
    /\ pc' \in {"export", "migrate_paises"}
    /\ UNCHANGED <<csv, paises, usinas, results, output_dir>>

InitPaths ==
    /\ pg \in PgDbs
    /\ csv = CsvFiles(<<>>, NoIndicador, <<>>, <<>>)
    /\ paises = <<>>
    /\ usinas = <<>>
    /\ pc \in {"export", "migrate_paises"}
    /\ results = <<>>
    /\ output_dir = {}

NextPaths ==
    \/ ExportToCsv
    \/ ImportPaisesFromCsv
    \/ ImportUsinasFromCsv
    \/ MigratePaises
    \/ MigrateUsinas
    \/ RunAgain

SpecPaths == InitPaths /\ [][NextPaths]_vars

\* the CSV directories of a report run: Brazil, with or without an entry in
\* each of four indicator files; no plant, one plant or two plants of one
\* agent; no unit or one unit of plant 1
OneRowOrNone == {<<>>, <<[id_pais |-> 1, ano |-> 2020, valor |-> 1]>>}

CsvReports ==
    {CsvFiles(<<PaisBrazil>>,
              [NoIndicador EXCEPT !["acesso_eletricidade"] = e,
                                  !["acesso_energia_renovavel"] = r,
                                  !["idh"] = h,
                                  !["energia_renovavel_per_capita"] = g],
              us, un) :
        e \in OneRowOrNone, r \in OneRowOrNone, h \in OneRowOrNone,
        g \in OneRowOrNone,
        us \in {s \in UsinasCsvs :
                    \A i \in 1..Len(s) : s[i].id_usina = i
                                          /\ s[i].estado_nome = "SP"},
        un \in {<<>>, <<[id_usina |-> 1, combustivel |-> "SOLAR",
                         potencia_efetiva |-> 1]>>}}

\* AggregateFails with the exception caught inside the loop, which goes on
\* with the next report
AggregateFailsContinue ==
    \E i \in 1..Len(QueryNames) :
        /\ pc = QueryNames[i]
        /\ pc' = After(i)
        /\ UNCHANGED <<pg, csv, paises, usinas, results, output_dir>>

\* collection.aggregate(pipeline) raises because the store cannot be
\* reached: the exception leaves the loop and is caught by main
AggregateFails ==
    \E i \in 1..Len(QueryNames) :
        /\ pc = QueryNames[i]
        /\ pc' = ErroNames[i]
        /\ UNCHANGED <<pg, csv, paises, usinas, results, output_dir>>

NextReports == Next \/ AggregateFails

SpecReports == InitFrom(CsvReports) /\ [][NextReports]_vars

\* the CSV directories with incomplete documents: Brazil and Argentina, each
\* with or without an entry of 2020 in each of four indicator files; two
\* plants, in one state or in two, with up to MaxUnidadesMissing units
IndicadorSubsets ==
    {<<>>,
     <<[id_pais |-> 1, ano |-> 2020, valor |-> 1]>>,
     <<[id_pais |-> 2, ano |-> 2020, valor |-> 2]>>,
     <<[id_pais |-> 1, ano |-> 2020, valor |-> 1],
       [id_pais |-> 2, ano |-> 2020, valor |-> 2]>>}

CsvMissing ==
    {CsvFiles(<<PaisBrazil, PaisArgentina>>,
              [NoIndicador EXCEPT !["acesso_eletricidade"] = e,
                                  !["acesso_energia_renovavel"] = r,
                                  !["idh"] = h,
                                  !["energia_renovavel_per_capita"] = g],
              us, un) :
        e \in IndicadorSubsets, r \in IndicadorSubsets,
        h \in IndicadorSubsets, g \in IndicadorSubsets,
        us \in {s \in UsinasCsvs : /\ Len(s) = 2
                                   /\ s[1].id_usina = 1
                                   /\ s[1].estado_nome = "SP"},
        un \in SeqsUpTo([id_usina : {1, 2}, combustivel : {"SOLAR", "GAS"},
                         potencia_efetiva : {1}], MaxUnidadesMissing)}

SpecMissing == InitFrom(CsvMissing) /\ [][Next]_vars

-----------------------------------------------------------------------------
(* Report 1 *)

\* the entries <<country, position>> of field f that carry year a
EntriesOf(f, a) ==
    UNION {IF f \in DOMAIN paises[i]
           THEN {<<i, j>> : j \in {k \in 1..Len(paises[i][f]) :
                                    paises[i][f][k].ano = a}}
           ELSE {} : i \in 1..Len(paises)}

\* the years of field f in any country
YearsOf(f) ==
    UNION {IF f \in DOMAIN paises[i]
           THEN {paises[i][f][k].ano : k \in 1..Len(paises[i][f])}
           ELSE {} : i \in 1..Len(paises)}

\* the sum of the values of a function with a finite domain
RECURSIVE SumFun(_)
SumFun(f) ==
    IF DOMAIN f = {} THEN 0
    ELSE LET x == CHOOSE y \in DOMAIN f : TRUE
         IN f[x] + SumFun([y \in DOMAIN f \ {x} |-> f[y]])

\* C4: report 1 has exactly one row per year of any country's
\* electricity-access series, in ascending year order; a row's global
\* average is the mean, to the nearest hundredth, of the entries that exist
\* for the year; its Brazil value is an entry of a country named Brazil for
\* the year, and is absent (null) exactly when there is none.
C4_Report1 ==
    Ran(1) =>
        /\ {results[k].ano : k \in 1..Len(results)}
                = YearsOf("acesso_eletricidade")
        /\ \A k, l \in 1..Len(results) :
                k < l => results[k].ano < results[l].ano
        /\ \A k \in 1..Len(results) :
              LET a == results[k].ano
                  E == EntriesOf("acesso_eletricidade", a)
                  pct(e) == paises[e[1]].acesso_eletricidade[e[2]].porcentagem
                  n == Cardinality(E)
                  brasil == {e \in E : paises[e[1]].nome = "Brazil"}
              IN /\ 2 * Abs(results[k].media_global * n
                                - 100 * SumFun([e \in E |-> pct(e)])) <= n
                 /\ "acesso_brasil" \in DOMAIN results[k] <=> brasil # {}
                 /\ brasil # {} =>
                        results[k].acesso_brasil \in {pct(e) : e \in brasil}

\* the first year has one entry, of a country other than Brazil, and its
\* row has no Brazil value; the second year has three entries, one of them
\* Brazil's, whose mean 5/3 is emitted as 1.67
C4_Witness ==
    /\ Ran(1)
    /\ Len(results) = 2
    /\ Cardinality(EntriesOf("acesso_eletricidade", results[1].ano)) = 1
    /\ "acesso_brasil" \notin DOMAIN results[1]
    /\ Cardinality(EntriesOf("acesso_eletricidade", results[2].ano)) = 3
    /\ "acesso_brasil" \in DOMAIN results[2]
    /\ results[2].media_global = 167

-----------------------------------------------------------------------------
(* Report 2 *)

\* the place in paises of the country named n
PlaceOf(n) == CHOOSE i \in 1..Len(paises) : paises[i].nome = n

\* the renewable-access entries of 2020, as <<country, position>>
Entries2020 == EntriesOf("acesso_energia_renovavel", AnoTop10)

PctOf(e) == paises[e[1]].acesso_energia_renovavel[e[2]].porcentagem

\* row k of results is the entry e
IsEntry(k, e) ==
    /\ results[k].pais = paises[e[1]].nome
    /\ results[k].ano = AnoTop10
    /\ results[k].pct_renovavel = PctOf(e)

\* report 2 has at most 10 rows, each a renewable-access entry of 2020, in
\* non-increasing order of percentage, and no omitted entry of 2020 has a
\* percentage greater than an emitted one
Top10OfYear ==
    /\ Len(results) = IF Cardinality(Entries2020) < Top10
                      THEN Cardinality(Entries2020) ELSE Top10
    /\ \A k \in 1..Len(results) : \E e \in Entries2020 : IsEntry(k, e)
    /\ \A k, l \in 1..Len(results) :
            k < l => results[k].pct_renovavel >= results[l].pct_renovavel
    /\ \A e \in Entries2020 :
            (\A k \in 1..Len(results) : ~IsEntry(k, e)) =>
                \A k \in 1..Len(results) :
                    PctOf(e) <= results[k].pct_renovavel

\* C5: report 2 is the top 10 of the year, and rows of equal percentage
\* are in the order of their countries in the collection.
C5_Top10Stable ==
    Ran(2) =>
        /\ Top10OfYear
        /\ \A k, l \in 1..Len(results) :
                (k < l /\ results[k].pct_renovavel = results[l].pct_renovavel)
                    => PlaceOf(results[k].pais) < PlaceOf(results[l].pais)

\* what holds of report 2 whatever order the store gives to equal
\* percentages
Q2_Top10AnyTieOrder == Ran(2) => Top10OfYear

-----------------------------------------------------------------------------
(* Report 3 *)

\* the pairs <<country, idh position, generation position>> of year a: an
\* idh entry and a generation entry of one country, both of year a
PairsOf(a) ==
    UNION {{<<h[1], h[2], g[2]>> :
                g \in {e \in EntriesOf(
                            "geracao_energia_renovavel_per_capita", a) :
                         e[1] = h[1]}} :
            h \in EntriesOf("idh", a)}

PairIdh(t) == paises[t[1]].idh[t[2]].indice
PairGer(t) ==
    paises[t[1]].geracao_energia_renovavel_per_capita[t[3]].geracao_watts

\* n * sum(x*y) - sum(x) * sum(y) over the pairs of year a: n times the sum
\* of the products of the deviations
NCov(a, x(_), y(_)) ==
    Cardinality(PairsOf(a)) * SumFun([t \in PairsOf(a) |-> x(t) * y(t)])
        - SumFun([t \in PairsOf(a) |-> x(t)])
            * SumFun([t \in PairsOf(a) |-> y(t)])

\* C1: in report 3 a country contributes to a year's group at most one
\* (hdi, generation) pair, and only pairs whose two entries carry the same
\* year.
C1_OnePairPerCountryYear ==
    Ran(3) =>
        LET pairs == Q3Pairs(paises)
        IN /\ \A k \in 1..Len(pairs) :
                 pairs[k].idh.ano =
                    pairs[k].geracao_energia_renovavel_per_capita.ano
           /\ \A k, l \in 1..Len(pairs) :
                 (/\ pairs[k]._id = pairs[l]._id
                  /\ pairs[k].idh.ano = pairs[l].idh.ano) => k = l

\* C2: report 3 never raises; it has one row per year with a pair; the
\* row's correlation is exactly 0 when the sum of squared deviations of the
\* year's HDI values or of its generation values is 0, and otherwise it is
\* covariance / (stdHdi * stdGen): its sign is the covariance's and its
\* square is covariance^2 / (ssdHdi * ssdGen).
C2_Correlation ==
    /\ ~Failed(3)
    /\ Ran(3) =>
        /\ {results[k].ano : k \in 1..Len(results)}
                = {a \in Anos : PairsOf(a) # {}}
        /\ \A k \in 1..Len(results) :
              LET a == results[k].ano
                  c == results[k].correlacao_idh_geracao
                  cov == NCov(a, PairIdh, PairGer)
                  ssdH == NCov(a, PairIdh, PairIdh)
                  ssdG == NCov(a, PairGer, PairGer)
              IN IF ssdH = 0 \/ ssdG = 0
                 THEN c = CorrZero
                 ELSE /\ c.sinal = Sign(cov)
                      /\ c.quadrado.num * ssdH * ssdG
                            = c.quadrado.den * cov * cov

\* a year with two pairs whose HDI values differ and whose generation
\* values are equal: one deviation is 0, the other is not
C2_Witness ==
    /\ Ran(3)
    /\ \E k \in 1..Len(results) :
          /\ Cardinality(PairsOf(results[k].ano)) = 2
          /\ NCov(results[k].ano, PairIdh, PairIdh) # 0
          /\ NCov(results[k].ano, PairGer, PairGer) = 0
          /\ results[k].correlacao_idh_geracao = CorrZero

\* the pairs of year a are one pair of each of two countries, the country
\* with the higher HDI having the higher generation
TwoCountriesPositiveSlope(a) ==
    \E t, u \in PairsOf(a) :
        /\ PairsOf(a) = {t, u}
        /\ t[1] # u[1]
        /\ PairIdh(t) < PairIdh(u)
        /\ PairGer(t) < PairGer(u)

\* C3: for a year whose pairs are those of two countries on a line of
\* positive slope, report 3 emits the correlation 1.0: sign +1, square 1.
C3_PerfectCorrelation ==
    Ran(3) =>
        \A k \in 1..Len(results) :
            TwoCountriesPositiveSlope(results[k].ano) =>
                results[k].correlacao_idh_geracao
                    = [sinal |-> 1, quadrado |-> [num |-> 1, den |-> 1]]

C3_Witness ==
    /\ Ran(3)
    /\ \E k \in 1..Len(results) :
          /\ TwoCountriesPositiveSlope(results[k].ano)
          /\ results[k].correlacao_idh_geracao.sinal = 1

-----------------------------------------------------------------------------
(* Reports 5, 7 and 8 *)

\* the plants <<position>> with a unit whose fuel is in F, in state e
PlantsWith(F) ==
    {i \in 1..Len(usinas) :
        \E j \in 1..Len(usinas[i].unidades_geradoras) :
            usinas[i].unidades_geradoras[j].combustivel \in F}

PlantsIn(e) == {i \in 1..Len(usinas) : usinas[i].estado.nome = e}

AllFuels ==
    UNION {{usinas[i].unidades_geradoras[j].combustivel :
                j \in 1..Len(usinas[i].unidades_geradoras)} :
            i \in 1..Len(usinas)}

\* the row of results whose field f is v
RowsWith(f, v) == {k \in 1..Len(results) : results[k][f] = v}

\* C6: report 5 has one row per fuel of any unit, and the row's count is
\* the number of plants with at least one unit of the fuel.
C6_Report5 ==
    Ran(5) =>
        /\ {results[k].combustivel : k \in 1..Len(results)} = AllFuels
        /\ \A f \in AllFuels :
              /\ Cardinality(RowsWith("combustivel", f)) = 1
              /\ \A k \in RowsWith("combustivel", f) :
                    results[k].qtd_usinas = Cardinality(PlantsWith({f}))

\* one plant has two units of one fuel and a unit of another and counts
\* once in each row; the other plant has no unit
C6_Witness ==
    /\ Ran(5)
    /\ Len(usinas) = 2
    /\ \E i \in 1..2 :
          /\ Len(usinas[i].unidades_geradoras) = 3
          /\ usinas[3 - i].unidades_geradoras = <<>>
    /\ Len(results) = 2
    /\ results[1].qtd_usinas = 1
    /\ results[2].qtd_usinas = 1

\* C7: report 7 never raises and has one row per state of any plant;
\* total_usinas is the number of plants of the state, usinas_renovaveis the
\* number of those with a renewable unit, 0 <= usinas_renovaveis <=
\* total_usinas, and perc_renovaveis is usinas_renovaveis / total_usinas *
\* 100 to the nearest hundredth, between 0 and 100, and 0 for a total of 0.
C7_Report7 ==
    /\ ~Failed(7)
    /\ Ran(7) =>
        /\ {results[k].estado : k \in 1..Len(results)}
                = {usinas[i].estado.nome : i \in 1..Len(usinas)}
        /\ \A k \in 1..Len(results) :
              LET r == results[k]
                  total == Cardinality(PlantsIn(r.estado))
                  ren == Cardinality(PlantsIn(r.estado)
                                        \cap PlantsWith(Renovaveis))
              IN /\ Cardinality(RowsWith("estado", r.estado)) = 1
                 /\ r.total_usinas = total
                 /\ r.usinas_renovaveis = ren
                 /\ 0 <= ren /\ ren <= total
                 /\ 0 <= r.perc_renovaveis /\ r.perc_renovaveis <= 10000
                 /\ 2 * Abs(r.perc_renovaveis * total - ren * 10000) <= total
                 /\ total = 0 => r.perc_renovaveis = 0

\* a state with two plants, one of them with a renewable unit: 50.00
C7_Witness ==
    /\ Ran(7)
    /\ \E k \in 1..Len(results) :
          /\ results[k].total_usinas = 2
          /\ results[k].usinas_renovaveis = 1
          /\ results[k].perc_renovaveis = 5000

\* the capacity of the renewable units of the plants in P
RenewableMw(P) ==
    LET units == UNION {{<<i, j>> :
                            j \in {k \in 1..Len(usinas[i].unidades_geradoras) :
                                usinas[i].unidades_geradoras[k].combustivel
                                    \in Renovaveis}} :
                        i \in P}
    IN SumFun([t \in units |->
                usinas[t[1]].unidades_geradoras[t[2]].potencia_efetiva_mw])

\* C8: in report 8 a state's capacity is the sum of the capacities of its
\* renewable units only; the capacities of the states add up to the
\* national total; a state's percentage is capacity / national total * 100
\* to the nearest hundredth, and 0 when the national total is 0; and the
\* report never raises.
C8_Report8Capacity ==
    /\ ~Failed(8)
    /\ Ran(8) =>
        LET nacional == RenewableMw(1..Len(usinas))
            estados == {results[k].estado : k \in 1..Len(results)}
        IN /\ \A k \in 1..Len(results) :
                 LET r == results[k]
                     mw == RenewableMw(PlantsIn(r.estado))
                 IN /\ r.capacidade_renovavel_mw = 100 * mw
                    /\ IF nacional = 0
                       THEN r.percentual_do_total_nacional = 0
                       ELSE 2 * Abs(r.percentual_do_total_nacional * nacional
                                        - mw * 10000) <= nacional
           /\ results # <<>> =>
                 SumFun([e \in estados |-> RenewableMw(PlantsIn(e))])
                    = nacional

\* two states have rows, and the plant of one has a renewable and a
\* non-renewable unit of 1 MW each, of which the row counts 1.00 MW
C8_Witness ==
    /\ Ran(8)
    /\ Len(results) = 2
    /\ results[1].estado # results[2].estado
    /\ \E k \in 1..2, i \in 1..Len(usinas) :
          /\ usinas[i].estado.nome = results[k].estado
          /\ usinas[i].unidades_geradoras =
                <<[combustivel |-> "SOLAR", potencia_efetiva_mw |-> 1],
                  [combustivel |-> "GAS", potencia_efetiva_mw |-> 1]>>
          /\ results[k].capacidade_renovavel_mw = 100
          /\ results[k].percentual_do_total_nacional = 5000

\* the documents of paises named Brazil
Brazils == {i \in 1..Len(paises) : paises[i].nome = "Brazil"}

\* the sum over all years of the clean-energy-investment series of
\* country i, 0 without the series
InvestmentOf(i) ==
    IF "investimento_energia_limpa" \in DOMAIN paises[i]
    THEN SumFun([j \in 1..Len(paises[i].investimento_energia_limpa) |->
                    paises[i].investimento_energia_limpa[j].valor_dolar])
    ELSE 0

\* the states with a plant that has a renewable unit
RenewableStates ==
    {usinas[i].estado.nome : i \in PlantsWith(Renovaveis)}

\* C9 as claimed: report 8 has exactly one row for every state with a
\* plant that has a renewable unit, each with Brazil's total investment.
C9_OneRowPerState ==
    Ran(8) =>
        /\ {results[k].estado : k \in 1..Len(results)} = RenewableStates
        /\ \A e \in RenewableStates :
                Cardinality(RowsWith("estado", e)) = 1
        /\ \A k \in 1..Len(results) :
                \E i \in Brazils :
                    results[k].investimento_nacional_total_usd
                        = InvestmentOf(i)

\* C9 amended: report 8 has, for every state with a plant that has a
\* renewable unit, one row per document of paises named Brazil, carrying
\* that document's total investment (0 without the series), and no other
\* row: exactly one row per state when exactly one document is named
\* Brazil, and no row at all when none is.
C9_OneRowPerStateAndBrazil ==
    Ran(8) =>
        /\ Brazils # {} =>
                {results[k].estado : k \in 1..Len(results)} = RenewableStates
        /\ Brazils = {} => results = <<>>
        /\ \A e \in RenewableStates :
              /\ Cardinality(RowsWith("estado", e)) = Cardinality(Brazils)
              /\ \E f \in [RowsWith("estado", e) -> Brazils] :
                    /\ \A i \in Brazils :
                          \E k \in RowsWith("estado", e) : f[k] = i
                    /\ \A k \in RowsWith("estado", e) :
                          results[k].investimento_nacional_total_usd
                            = InvestmentOf(f[k])

\* one document named Brazil, with a series of two years, and two states
\* with a row each
C9_Witness ==
    /\ Ran(8)
    /\ Cardinality(Brazils) = 1
    /\ Len(results) = 2
    /\ Cardinality(RenewableStates) = 2
    /\ \A k \in 1..2 : results[k].investimento_nacional_total_usd = 3

-----------------------------------------------------------------------------
(* Repeated ingestion *)

\* document d of the store holds exactly the fields of doc, with doc's
\* values, next to its _id
HoldsOnly(d, doc) ==
    /\ DOMAIN d \ {"_id"} = DOMAIN doc
    /\ \A f \in DOMAIN doc : d[f] = doc[f]

\* the run's last row of rows whose key is key
LastRowWith(rows, key(_), k) ==
    rows[CHOOSE i \in 1..Len(rows) :
            /\ key(rows[i]) = k
            /\ \A j \in 1..Len(rows) : key(rows[j]) = k => j <= i]

PaisKey(row) == CleanCode(row.code)
UsinaKey(row) == row.ceg

\* C10: when an ingestion run ends, every country document and every plant
\* document whose natural key the run contained holds only the fields the
\* run wrote for that key, with the run's values: nothing an earlier run
\* wrote survives in it.  A document whose key the run did not contain is
\* as the earlier runs left it.
C10_LatestRunWins ==
    [][/\ (pc = "import_paises" /\ pc' = "import_usinas") =>
            \A i \in 1..Len(paises') :
                LET k == paises'[i].cod_pais
                IN IF \E r \in Range(csv.paises) : PaisKey(r) = k
                   THEN HoldsOnly(paises'[i],
                            PaisDoc(csv, LastRowWith(csv.paises, PaisKey, k)))
                   ELSE i <= Len(paises) /\ paises'[i] = paises[i]
       /\ (pc = "import_usinas" /\ pc' = "q1") =>
            \A i \in 1..Len(usinas') :
                LET k == usinas'[i].ceg
                IN IF \E r \in Range(csv.usinas) : UsinaKey(r) = k
                   THEN HoldsOnly(usinas'[i],
                            UsinaDoc(csv, LastRowWith(csv.usinas, UsinaKey, k)))
                   ELSE i <= Len(usinas) /\ usinas'[i] = usinas[i]]_vars

\* the same of the plant documents alone: usina_doc names every field, so
\* a run overwrites all of a plant it contains
Usinas_LatestRunWins ==
    [][(pc = "import_usinas" /\ pc' = "q1") =>
            \A i \in 1..Len(usinas') :
                LET k == usinas'[i].ceg
                IN IF \E r \in Range(csv.usinas) : UsinaKey(r) = k
                   THEN HoldsOnly(usinas'[i],
                            UsinaDoc(csv, LastRowWith(csv.usinas, UsinaKey, k)))
                   ELSE i <= Len(usinas) /\ usinas'[i] = usinas[i]]_vars

-----------------------------------------------------------------------------
(* Idempotence of the ingestion *)

UniqueKeys ==
    /\ \A i, j \in 1..Len(paises) :
            paises[i].cod_pais = paises[j].cod_pais => i = j
    /\ \A i, j \in 1..Len(usinas) :
            usinas[i].ceg = usinas[j].ceg => i = j

\* C11: when a run of either ingestion path has ended, the same run on the
\* same input leaves both collections as they are; and at any time each
\* collection holds at most one document per natural key.
C11_Idempotent ==
    /\ pc = "q1" =>
            /\ ImportPaisesLoop(paises, csv, csv.paises) = paises
            /\ ImportUsinasLoop(usinas, csv, csv.usinas) = usinas
    /\ pc = "migrado" =>
            /\ MigratePaisesLoop(paises, pg, pg.pais) = paises
            /\ MigrateUsinasLoop(usinas, pg, pg.usina) = usinas
    /\ UniqueKeys

\* a run of the CSV path has ended on a collection that an earlier run of
\* the direct path wrote to as well
C11_Witness ==
    /\ pc = "q1"
    /\ Len(paises) = 1
    /\ Len(usinas) = 1
    /\ "geracao_energia_renovavel_per_capta" \in DOMAIN paises[1]
    /\ "geracao_energia_renovavel_per_capita" \in DOMAIN paises[1]

-----------------------------------------------------------------------------
(* The series of a country document *)

\* the fields of a country document that hold a series
SeriesFields(d) == DOMAIN d \ {"_id", "nome", "cod_pais"}

\* C12: once import_paises_from_csv has run, every series of every country
\* document has at most one entry per year, and for every year of a
\* country's rows in an indicator file the series holds the entry of the
\* last such row.
C12_OneEntryPerYear ==
    pc # "import_paises" =>
        /\ \A i \in 1..Len(paises) : \A f \in SeriesFields(paises[i]) :
                \A j, k \in 1..Len(paises[i][f]) :
                    paises[i][f][j].ano = paises[i][f][k].ano => j = k
        /\ \A r \in Range(csv.paises) : \A k \in IndicatorFileKeys :
                LET rows == RowsOf(csv.indicador[k], r.id_pais)
                    last(a) == rows[CHOOSE j \in 1..Len(rows) :
                                    /\ rows[j].ano = a
                                    /\ \A l \in 1..Len(rows) :
                                            rows[l].ano = a => l <= j]
                IN \A n \in 1..Len(rows) :
                      \E i \in 1..Len(paises) :
                          /\ paises[i].cod_pais = CleanCode(r.code)
                          /\ indicator_files(k) \in DOMAIN paises[i]
                          /\ CsvEntry(indicator_files(k), last(rows[n].ano))
                                \in Range(paises[i][indicator_files(k)])

-----------------------------------------------------------------------------
(* Determinism of the reports *)

\* C13: a report about to be computed has one possible result: whatever
\* two executions against the collections as they are return, the rows and
\* their order are the same.
C13_Deterministic ==
    \A i \in 1..Len(QueryNames) :
        pc = QueryNames[i] => \A r1, r2 \in Aggregate(i) : r1 = r2

\* the same of the two reports whose sort key, the year, is unique
Q1Q3_Deterministic ==
    \A i \in {1, 3} :
        pc = QueryNames[i] => \A r1, r2 \in Aggregate(i) : r1 = r2

-----------------------------------------------------------------------------
(* The report run *)

\* C14: no step of the report run, ended or aborted, changes the Country
\* or the PowerPlant collection.
C14_ReadOnly ==
    [][(pc \in Range(QueryNames)) =>
            (paises' = paises /\ usinas' = usinas)]_vars

\* the run has ended, and another was aborted, on collections that hold
\* documents
C14_Witness ==
    /\ pc \in {"fim", "erro_q8"}
    /\ paises # <<>>
    /\ usinas # <<>>
    /\ output_dir # {}

\* C15: computing a report raises no error of its own, whatever the
\* collections hold; when report i has returned, the run is at the next
\* report, the file of report i is in the directory exactly if the report
\* returned a row, and no other file was written or removed.
C15_FileIffRows ==
    [][\A i \in 1..Len(QueryNames) :
        (pc = QueryNames[i]) =>
            /\ \A rows \in Aggregate(i) : ~Raised(rows)
            /\ (pc' = After(i)) =>
                    /\ Filenames[i] \in output_dir' <=> results' # <<>>
                    /\ output_dir' \ {Filenames[i]} = output_dir]_vars

\* the run has ended: report 1 returned no row and wrote no file, and the
\* later report 5 wrote its file
C15_Witness ==
    /\ pc = "fim"
    /\ paises # <<>>
    /\ Filenames[1] \notin output_dir
    /\ Filenames[5] \in output_dir
    /\ Filenames[4] \notin output_dir

\* C17: the reports run in the order 1..8, each at most once.  A step of
\* report i either returns its rows and goes on to report i + 1, or fails and
\* ends the run at main's except clause, with the files of the earlier
\* reports as they were and no file of reports i..8; nothing runs after
\* the run has ended, so no report is retried.
C17_OrderAndFailure ==
    [][/\ pc \notin Range(ErroNames) \cup {"fim"}
       /\ \A i \in 1..Len(QueryNames) :
            (pc = QueryNames[i]) =>
                \/ /\ pc' = After(i)
                   /\ results' \in Aggregate(i)
                   /\ output_dir \subseteq output_dir'
                   /\ output_dir' \subseteq {Filenames[j] : j \in 1..i}
                \/ /\ pc' = ErroNames[i]
                   /\ output_dir' = output_dir
                   /\ output_dir' \subseteq {Filenames[j] : j \in 1..(i - 1)}]_vars

\* the store failed while report 5 was computed, after reports 1 and 4 had
\* written their files
C17_Witness ==
    /\ pc = "erro_q5"
    /\ Filenames[1] \in output_dir
    /\ Filenames[4] \in output_dir

-----------------------------------------------------------------------------
(* Incomplete documents *)

\* the documents of coll that have every field of F
WithFields(coll, F) == SelectSeq(coll, LAMBDA d : F \subseteq DOMAIN d)

\* the plants of coll that have a generating unit
WithUnits(coll) == SelectSeq(coll, LAMBDA d : d.unidades_geradoras # <<>>)

\* what report i may return on the collections without the documents that
\* lack what the report reads
CompleteAggregate(i) ==
    CASE i = 1 -> q1_pipeline(WithFields(paises, {"acesso_eletricidade"}))
      [] i = 2 ->
            q2_pipeline(WithFields(paises, {"acesso_energia_renovavel"}))
      [] i = 3 ->
            q3_pipeline(WithFields(paises,
                {"idh", "geracao_energia_renovavel_per_capita"}))
      [] i = 5 -> q5_pipeline(WithUnits(usinas))
      [] i = 6 -> q6_pipeline(WithUnits(usinas))
      [] i = 8 -> q8_pipeline(WithUnits(usinas), paises)

\* the renewable counts of the rows of report 7, by state
RenewableCounts(rows) ==
    {<<rows[k].estado, rows[k].usinas_renovaveis>> :
        k \in {l \in 1..Len(rows) : rows[l].usinas_renovaveis > 0}}

\* C16: no report raises; reports 1, 2, 3, 5, 6 and 8 may return exactly
\* what they may return on the collections without the countries that lack
\* the series read and without the plants that have no unit, and so does
\* each of them when it runs; the renewable counts of report 7 are those of
\* the collection without the plants that have no unit.
C16_MissingFields ==
    /\ pc = "q1" =>
            /\ \A i \in 1..Len(QueryNames) :
                    \A rows \in Aggregate(i) : ~Raised(rows)
            /\ \A i \in {1, 2, 3, 5, 6, 8} :
                    Aggregate(i) = CompleteAggregate(i)
            /\ \A r1 \in q7_pipeline(usinas) :
                    \A r2 \in q7_pipeline(WithUnits(usinas)) :
                        RenewableCounts(r1) = RenewableCounts(r2)
    /\ \A i \in {1, 2, 3, 5, 6, 8} :
            Ran(i) => results \in CompleteAggregate(i)

\* report 6 has run on two plants of which one has no unit, after reports
\* 1 and 3 on two countries of which one lacks the series read
C16_Witness ==
    /\ Ran(6)
    /\ results # <<>>
    /\ Len(WithUnits(usinas)) = 1
    /\ Len(usinas) = 2
    /\ Len(WithFields(paises, {"acesso_eletricidade"})) = 1
    /\ Len(WithFields(paises, {"idh"})) = 2
    /\ Len(WithFields(paises, {"geracao_energia_renovavel_per_capita"})) = 1
    /\ Filenames[1] \in output_dir
    /\ Filenames[3] \in output_dir

-----------------------------------------------------------------------------
(* The two ingestion paths *)

\* the tables whose series the reports read, and the field each is read
\* from
ReportTables ==
    {"acesso_eletricidade", "acesso_energia_renovavel", "idh",
     "energia_renovavel_per_capita", "investimento_energia_limpa"}

ReportField(t) ==
    IF t = "energia_renovavel_per_capita"
    THEN "geracao_energia_renovavel_per_capita"
    ELSE t

\* the document of the store written for the row r of Pais
DocOf(r) == paises[CHOOSE i \in 1..Len(paises) :
                        paises[i].cod_pais = CleanCode(r.code)]

\* C18: once either path has written the countries, the document of every
\* row of Pais with a code holds every series field that the other path
\* builds for the row, and the field the reports read for every table of
\* theirs in which the country has a row.
C18_SamePathFields ==
    \A r \in {x \in Range(pg.pais) : x.code # <<>>} :
        /\ pc = "migrate_usinas" =>
                SeriesFields(PaisDoc(ExportToCsvFiles(pg), r))
                    \subseteq DOMAIN DocOf(r)
        /\ pc = "import_usinas" =>
                SeriesFields(MigratePaisDoc(pg, r)) \subseteq DOMAIN DocOf(r)
        /\ pc \in {"migrate_usinas", "import_usinas"} =>
                \A t \in ReportTables :
                    (\E x \in Range(pg.indicador[t]) : x.id_pais = r.id_pais)
                        => ReportField(t) \in DOMAIN DocOf(r)

\* the last conjunct of C18 of the CSV path alone
CsvPath_ReportFields ==
    pc = "import_usinas" =>
        \A r \in {x \in Range(pg.pais) : x.code # <<>>} :
            \A t \in ReportTables :
                (\E x \in Range(pg.indicador[t]) : x.id_pais = r.id_pais)
                    => ReportField(t) \in DOMAIN DocOf(r)

=====
